---- MODULE Spec2Model ----
(***************************************************************************)
(* PPO training loop (4.PPO-discrete/PPO_discrete_main.py: main and        *)
(* evaluate_policy) and the stochastic actor head                          *)
(* (5.PPO-continuous/nn/cnn_actor.py: Stochastic_Actor.stochastic_forward).*)
(*                                                                         *)
(* normalization.py, replaybuffer.py and ppo_discrete.py are imported by   *)
(* main but are not part of the sources at hand; Normalization,            *)
(* RewardScaling, ReplayBuffer.store and PPO_discrete.update are modelled  *)
(* from their description in spec.md.  gym's TimeLimit wrapper (the owner  *)
(* of env._max_episode_steps) is the environment.                          *)
(***************************************************************************)
EXTENDS Integers, Sequences, FiniteSets, TLC

VARIABLES
    args,             \* the parsed options main reads (fixed during a run)
    pc,               \* position of main: "while", "inner", "evaluate", "exit", "error"
    total_steps,      \* main: total_steps
    prev_total_steps, \* main: prev_total_steps
    max_reward,       \* main: max_reward
    replay_buffer,    \* ReplayBuffer: [count, overflow]
    agent,            \* PPO_discrete: [updates] = number of update calls applied to the parameters
    state_norm,       \* Normalization(shape=state_dim): running statistics [n, S]
    reward_norm,      \* local reward_norm: [bound, n]
    reward_scaling,   \* local reward_scaling: [bound, len, n, resets]
    env,              \* training environment: [elapsed, episodes, terminated, truncated]
    s,                \* main: s, the current training observation
    episode_steps,    \* main: episode_steps
    done,             \* main: done
    stored,           \* the last transition given to replay_buffer.store, with how its step ended
    log,              \* what main has logged and saved so far
    actor             \* one call of Stochastic_Actor.stochastic_forward

vars == <<args, pc, total_steps, prev_total_steps, max_reward, replay_buffer, agent,
          state_norm, reward_norm, reward_scaling, env, s, episode_steps, done,
          stored, log, actor>>

mainVars == <<args, pc, total_steps, prev_total_steps, max_reward, replay_buffer, agent,
              state_norm, reward_norm, reward_scaling, env, s, episode_steps, done,
              stored, log>>

----------------------------------------------------------------------------
(* Bounds of the model *)

MaxBatchSize == 2
MaxEvaluateFreq == 2
MaxTrainSteps == 3
MaxEpisodeSteps == 2
MaxMu == 2
MaxSd == 2

(* Program constants *)

\* evaluate_policy: epochs = 3
epochs == 3

\* main: max_reward = float('-inf'); every evaluation reward is >= 0 here
NegInf == -1

\* The reward of one step of env_evaluate (CartPole: 1 per step), counted in
\* units of 1 / epochs so that reward / epochs is exact in the integers
EvalStepReward == epochs

Configs ==
    [batch_size : 1..MaxBatchSize,
     evaluate_freq : 1..MaxEvaluateFreq,
     max_train_steps : 1..MaxTrainSteps,
     max_episode_steps : 1..MaxEpisodeSteps,
     use_state_norm : BOOLEAN,
     use_reward_norm : BOOLEAN,
     use_reward_scaling : BOOLEAN]

----------------------------------------------------------------------------
(* Normalization: running mean/variance; the statistics are held as the     *)
(* sample count n and the sum S of the samples (mean = S / n).              *)

NormUpdate(norm, x) == [n |-> norm.n + 1, S |-> norm.S + x]

\* (x - mean), scaled by n to stay in the integers; x itself before any sample
NormApply(norm, x) == IF norm.n = 0 THEN x ELSE x * norm.n - norm.S

\* Normalization.__call__(x, update): the statistics after the call and the value returned
NormCall(norm, x, update) ==
    LET after == IF update THEN NormUpdate(norm, x) ELSE norm
    IN  [norm |-> after, out |-> NormApply(after, x)]

(* RewardScaling: len is the number of rewards folded into the discounted   *)
(* return R since the last reset, n the sample count of its running         *)
(* statistics, resets the number of reset() calls.                          *)

RewardScalingCall(rs) == [rs EXCEPT !.len = @ + 1, !.n = @ + 1]

RewardScalingReset(rs) == [rs EXCEPT !.len = 0, !.resets = @ + 1]

(* ReplayBuffer.store: appends; a store into a full buffer is an overflow   *)

Store(rb, capacity) ==
    [count |-> rb.count + 1, overflow |-> rb.overflow \/ rb.count >= capacity]

(* PPO_discrete.update: mutates the parameters in place *)

Update(ag) == [ag EXCEPT !.updates = @ + 1]

----------------------------------------------------------------------------
(* gym.wrappers.TimeLimit around the environment: an episode is cut at      *)
(* max_episode_steps unless the environment ended it itself on that step.   *)

EnvReset(e) == [elapsed |-> 0, episodes |-> e.episodes + 1,
                terminated |-> FALSE, truncated |-> FALSE]

EnvStep(e, terminated, horizon) ==
    [e EXCEPT !.elapsed = @ + 1,
              !.terminated = terminated,
              !.truncated = (~terminated) /\ e.elapsed + 1 >= horizon]

EnvDone(e) == e.terminated \/ e.truncated

\* The observation: the number of steps taken in the episode
EnvObs(e) == e.elapsed

----------------------------------------------------------------------------
(* main, before the training loop *)

ActorIdle == [phase |-> "idle"]

MainInit ==
    /\ pc = "while"
    /\ total_steps = 0
    /\ prev_total_steps = 0
    /\ max_reward = NegInf
    /\ replay_buffer = [count |-> 0, overflow |-> FALSE]
    /\ agent = [updates |-> 0]
    /\ state_norm = [n |-> 0, S |-> 0]
    /\ reward_norm = [bound |-> args.use_reward_norm, n |-> 0]
    /\ reward_scaling = [bound |-> (~args.use_reward_norm) /\ args.use_reward_scaling,
                         len |-> 0, n |-> 0, resets |-> 0]
    /\ env = [elapsed |-> 0, episodes |-> 0, terminated |-> FALSE, truncated |-> FALSE]
    /\ s = 0
    /\ episode_steps = 0
    /\ done = FALSE
    /\ stored = [n |-> 0]
    /\ log = [updates |-> 0, update_steps |-> 0,
              evals |-> 0, eval_reward |-> 0, eval_agent |-> 0,
              prior_best |-> NegInf, best_seen |-> NegInf, snapshot |-> FALSE,
              checkpoints |-> 0, checkpoint_steps |-> 0, checkpoint_agent |-> 0]

Init ==
    /\ args \in Configs
    /\ MainInit
    /\ actor = ActorIdle

----------------------------------------------------------------------------
(* main: the tests and branches of the training loop *)

\* while total_steps < args.max_train_steps
LoopContinues(total, a) == total < a.max_train_steps

\* The scaler is never reset at the head of an episode
ResetScalingNever(rs, a) == rs

\* if args.use_reward_scaling: reward_scaling.reset()
ResetScaling(rs, a) == IF a.use_reward_scaling THEN RewardScalingReset(rs) ELSE rs

\* if done and episode_steps != args.max_episode_steps: dw = True  else: dw = False
DeadOrWin(d, steps, a) == d /\ steps # a.max_episode_steps

\* if args.use_reward_norm: r = reward_norm(r)  elif args.use_reward_scaling: r = reward_scaling(r)
TransformReward(rn, rs, a) ==
    IF a.use_reward_norm
    THEN [reward_norm |-> [rn EXCEPT !.n = @ + 1], reward_scaling |-> rs, via |-> "norm"]
    ELSE IF a.use_reward_scaling
         THEN [reward_norm |-> rn, reward_scaling |-> RewardScalingCall(rs), via |-> "scaling"]
         ELSE [reward_norm |-> rn, reward_scaling |-> rs, via |-> "raw"]

\* The buffer counts as full only once it holds more than batch_size
BufferFullLate(rb, a) == rb.count > a.batch_size

\* if replay_buffer.count == args.batch_size
BufferFull(rb, a) == rb.count = a.batch_size

\* The count is left as it is after the update
ConsumeNothing(rb) == rb

\* replay_buffer.count = 0
Consume(rb) == [rb EXCEPT !.count = 0]

\* An evaluation only after more than evaluate_freq steps
EvaluateDueLate(total, prev, a) == total - prev > a.evaluate_freq

\* if total_steps - prev_total_steps >= args.evaluate_freq
EvaluateDue(total, prev, a) == total - prev >= a.evaluate_freq

\* The comparison with max_reward the wrong way round
IsNewBestFlipped(reward, best) == reward <= best

\* if reward >= max_reward
IsNewBest(reward, best) == reward >= best

\* The evaluation feeds its observations into the running statistics
EvalStateNormUpdating(norm, x) == NormCall(norm, x, TRUE)

\* evaluate_policy: state_norm(s, update=False)
EvalStateNorm(norm, x) == NormCall(norm, x, FALSE)

Max(a, b) == IF a >= b THEN a ELSE b

----------------------------------------------------------------------------
(* evaluate_policy(args, env_evaluate, agent, state_norm, device) *)

\* One episode on env_evaluate, from env.reset() (step 0) to the step that
\* ends it: the statistics of state_norm after the calls made on the way
RECURSIVE EvalEpisode(_, _, _, _)
EvalEpisode(norm, step, len, a) ==
    IF step > len
    THEN norm
    ELSE EvalEpisode(IF a.use_state_norm THEN EvalStateNorm(norm, step).norm ELSE norm,
                     step + 1, len, a)

\* for _ in range(epochs): lens[k] is the length of the k-th episode
RECURSIVE EvalEpochs(_, _, _, _)
EvalEpochs(acc, k, lens, a) ==
    IF k > epochs
    THEN acc
    ELSE EvalEpochs([norm   |-> EvalEpisode(acc.norm, 0, lens[k], a),
                     reward |-> acc.reward + lens[k] * EvalStepReward],
                    k + 1, lens, a)

\* return reward / epochs (the length returned with it is only logged)
EvaluatePolicy(norm, lens, a) ==
    LET acc == EvalEpochs([norm |-> norm, reward |-> 0], 1, lens, a)
    IN  [norm |-> acc.norm, reward |-> acc.reward \div epochs]

----------------------------------------------------------------------------
(* main: the training loop *)

\* The head of an episode: env.reset(), state_norm(s), reward_scaling.reset().
\* reward_scaling is an unbound local when use_reward_norm took the first
\* branch of the construction, and reading it raises UnboundLocalError.
EpisodeReset ==
    /\ pc = "while"
    /\ LoopContinues(total_steps, args)
    /\ LET e  == EnvReset(env)
           sn == IF args.use_state_norm THEN NormCall(state_norm, EnvObs(e), TRUE)
                 ELSE [norm |-> state_norm, out |-> EnvObs(e)]
       IN  /\ env' = e
           /\ state_norm' = sn.norm
           /\ s' = sn.out
           /\ IF args.use_reward_scaling /\ ~reward_scaling.bound
              THEN /\ pc' = "error"
                   /\ UNCHANGED <<reward_scaling, episode_steps, done>>
              ELSE /\ reward_scaling' = ResetScaling(reward_scaling, args)
                   /\ episode_steps' = 0
                   /\ done' = FALSE
                   /\ pc' = "inner"
    /\ UNCHANGED <<args, total_steps, prev_total_steps, max_reward, replay_buffer, agent,
                   reward_norm, stored, log, actor>>

\* The loop test fails: main returns
LoopExit ==
    /\ pc = "while"
    /\ ~LoopContinues(total_steps, args)
    /\ pc' = "exit"
    /\ UNCHANGED <<args, total_steps, prev_total_steps, max_reward, replay_buffer, agent,
                   state_norm, reward_norm, reward_scaling, env, s, episode_steps, done,
                   stored, log, actor>>

\* One pass of the body of "while not done" up to the test for an
\* evaluation: the environment step, the store, the update when the buffer
\* is full.
TrainStep ==
    /\ pc = "inner"
    /\ ~done
    /\ \E terminated \in BOOLEAN :
        LET steps == episode_steps + 1
            e     == EnvStep(env, terminated, args.max_episode_steps)
            d     == EnvDone(e)
            sn    == IF args.use_state_norm THEN NormCall(state_norm, EnvObs(e), TRUE)
                     ELSE [norm |-> state_norm, out |-> EnvObs(e)]
            tr    == TransformReward(reward_norm, reward_scaling, args)
            dw    == DeadOrWin(d, steps, args)
            rb    == Store(replay_buffer, args.batch_size)
            total == total_steps + 1
            full  == BufferFull(rb, args)
        IN  /\ episode_steps' = steps
            /\ env' = e
            /\ done' = d
            /\ state_norm' = sn.norm
            /\ reward_norm' = tr.reward_norm
            /\ reward_scaling' = tr.reward_scaling
            /\ stored' = [n |-> 1, dw |-> dw, done |-> d, via |-> tr.via,
                         terminated |-> e.terminated, truncated |-> e.truncated]
            /\ s' = sn.out
            /\ total_steps' = total
            /\ agent' = IF full THEN Update(agent) ELSE agent
            /\ replay_buffer' = IF full THEN Consume(rb) ELSE rb
            /\ log' = IF full
                      THEN [log EXCEPT !.updates = @ + 1, !.update_steps = total]
                      ELSE log
            /\ pc' = IF EvaluateDue(total, prev_total_steps, args) THEN "evaluate"
                     ELSE IF d THEN "while" ELSE "inner"
    /\ UNCHANGED <<args, prev_total_steps, max_reward, actor>>

\* The evaluation at the end of a pass: evaluate_policy on env_evaluate, the
\* best-policy snapshot, the log record, the checkpoint,
\* prev_total_steps = total_steps.
Evaluate ==
    /\ pc = "evaluate"
    /\ \E lens \in [1..epochs -> 1..args.max_episode_steps] :
      \E res \in {EvaluatePolicy(state_norm, lens, args)} :
        LET best == IsNewBest(res.reward, max_reward)
        IN  /\ state_norm' = res.norm
            /\ max_reward' = IF best THEN res.reward ELSE max_reward
            /\ log' = [log EXCEPT
                         !.evals = @ + 1,
                         !.eval_reward = res.reward,
                         !.eval_agent = agent.updates,
                         !.prior_best = log.best_seen,
                         !.best_seen = Max(log.best_seen, res.reward),
                         !.snapshot = best,
                         !.checkpoints = @ + 1,
                         !.checkpoint_steps = total_steps,
                         !.checkpoint_agent = agent.updates]
    /\ prev_total_steps' = total_steps
    /\ pc' = IF done THEN "while" ELSE "inner"
    /\ UNCHANGED <<args, total_steps, replay_buffer, agent, reward_norm,
                   reward_scaling, env, s, episode_steps, done, stored, actor>>

Next ==
    \/ EpisodeReset
    \/ LoopExit
    \/ TrainStep
    \/ Evaluate

Spec == Init /\ [][Next]_vars

----------------------------------------------------------------------------
(* Stochastic_Actor.stochastic_forward, one action dimension.  A value of   *)
(* the Normal log-density is held as the pair that determines it, the       *)
(* squared deviation from mu and sd; the tanh correction                    *)
(* log(1 - tanh(x)^2 + 1e-6), even and strictly monotonic in |x|, as x^2.   *)

\* The draws of the standard normal behind dist.rsample()
Noise == {-1, 0, 1}

\* dist.rsample(): mu + sd * noise
RSample(mu, sd, noise) == mu + sd * noise

\* dist.log_prob(x) for dist = Normal(mu, sd)
NormalLogProb(mu, sd, x) == [sq |-> (x - mu) * (x - mu), sd |-> sd]

\* torch.log((1 - torch.tanh(x).pow(2)) + 1e-6)
TanhCorrection(x) == <<x * x>>

NoCorrection == <<>>

\* The log-probability of the action whose pre-squash value is x
LogProbOf(mu, sd, x, bounded) ==
    [normal |-> NormalLogProb(mu, sd, x),
     minus  |-> IF bounded THEN TanhCorrection(x) ELSE NoCorrection]

\* What stochastic_forward returns: the action as its pre-squash value and
\* whether tanh is applied to it, and log_prob when log_probs is set
StochasticForwardResult(c) ==
    LET sample == RSample(c.mu, c.sd, c.noise)
        action == [tanh |-> c.bounded,
                   pre  |-> IF c.deterministic THEN c.mu ELSE sample]
    IN  IF c.log_probs
        THEN [action |-> action, log_prob |-> <<LogProbOf(c.mu, c.sd, sample, c.bounded)>>]
        ELSE [action |-> action, log_prob |-> <<>>]

ActorCalls ==
    [phase : {"call"},
     mu : (0 - MaxMu)..MaxMu,
     sd : 1..MaxSd,
     noise : Noise,
     deterministic : BOOLEAN,
     bounded : BOOLEAN,
     log_probs : BOOLEAN,
     out : {<<>>}]

StochasticForward ==
    /\ actor.phase = "call"
    /\ actor' = [actor EXCEPT !.phase = "return", !.out = <<StochasticForwardResult(actor)>>]
    /\ UNCHANGED mainVars

InitActor ==
    /\ args = [batch_size |-> 1, evaluate_freq |-> 1, max_train_steps |-> 1,
               max_episode_steps |-> 1, use_state_norm |-> FALSE,
               use_reward_norm |-> FALSE, use_reward_scaling |-> FALSE]
    /\ MainInit
    /\ actor \in ActorCalls

NextActor == StochasticForward

SpecActor == InitActor /\ [][NextActor]_vars

----------------------------------------------------------------------------
(* The claims *)

\* C1: replay_buffer.count never exceeds batch_size, store is never called
\* on a full buffer, and right after an update (no store since) the count is 0.
C1_BufferWithinCapacity ==
    /\ replay_buffer.count <= args.batch_size
    /\ ~replay_buffer.overflow
    /\ (log.updates > 0 /\ log.update_steps = total_steps) => replay_buffer.count = 0

\* A store after an update, into a buffer of capacity 2
C1_Witness ==
    /\ args.batch_size = 2
    /\ log.updates >= 1
    /\ replay_buffer.count = 1

\* C2: after n training steps there have been n div batch_size updates, the
\* last of them at the last multiple of batch_size, and count is n mod batch_size.
C2_UpdateEveryBatch ==
    /\ log.updates = total_steps \div args.batch_size
    /\ agent.updates = log.updates
    /\ log.update_steps = log.updates * args.batch_size
    /\ replay_buffer.count = total_steps % args.batch_size

\* An update in the second episode, the batch spanning the episode boundary
C2_Witness ==
    /\ args.batch_size = 2
    /\ env.episodes = 2
    /\ episode_steps = 1
    /\ total_steps = 2
    /\ log.updates = 1

\* C3: the stored dw is true exactly when the environment itself ended the
\* episode at that step (also on the step numbered max_episode_steps), and
\* dw implies done.
C3_DwIffTerminated ==
    stored.n = 1 =>
        /\ stored.dw <=> stored.terminated
        /\ stored.dw => stored.done

\* C4: with use_reward_norm and use_reward_scaling both set, main does not
\* fail once the training loop has begun, and every reward stored went
\* through exactly one of the two transforms.
C4_BothTransformsSet ==
    (args.use_reward_norm /\ args.use_reward_scaling) =>
        /\ ~(pc = "error" /\ env.episodes >= 1)
        /\ stored.n = 1 => stored.via \in {"norm", "scaling"}

\* C5: an evaluation changes nothing of the training state: the running
\* statistics of state_norm, the buffer, total_steps, the training
\* environment, and the current episode's state and step counter.
C5_EvaluationFrame ==
    [][pc = "evaluate" =>
         UNCHANGED <<state_norm, replay_buffer, total_steps, env, s, episode_steps, done>>]_vars

\* After an evaluation in the middle of an episode, with state normalization on
C5_Witness ==
    /\ args.use_state_norm
    /\ log.evals >= 1
    /\ pc = "inner"
    /\ ~done
    /\ state_norm.n >= 2

\* C6: total_steps never passes max_train_steps, and main returns with
\* total_steps equal to max_train_steps.
C6_StepBudget ==
    /\ total_steps <= args.max_train_steps
    /\ pc = "exit" => total_steps = args.max_train_steps

\* C7: with log_probs set, the log-probability returned is that of the
\* action returned: taken at the action's pre-squash value, with the tanh
\* correction at that value when bounded.
C7_LogProbOfReturnedAction ==
    (actor.phase = "return" /\ actor.log_probs) =>
        LET res == actor.out[1]
        IN  res.log_prob =
                <<LogProbOf(actor.mu, actor.sd, res.action.pre, res.action.tanh)>>

\* C8: max_reward is the largest evaluation reward so far and never drops;
\* the snapshot is written at an evaluation above every earlier one (the
\* first included) and at none below the largest so far.
C8_BestSnapshot ==
    /\ max_reward = log.best_seen
    /\ max_reward >= log.prior_best
    /\ log.evals >= 1 =>
        /\ log.eval_reward > log.prior_best => log.snapshot
        /\ log.eval_reward < log.prior_best => ~log.snapshot

\* A second evaluation whose reward is below the first's
C8_Witness ==
    /\ log.evals >= 2
    /\ log.eval_reward < max_reward
    /\ ~log.snapshot

\* C9: evaluations and checkpoints happen one for one at the positive
\* multiples of evaluate_freq; the parameters evaluated and checkpointed
\* are those after the update of the same step, and the checkpoint's
\* total_steps is the step count.
C9_EvaluateEveryFreq ==
    LET due    == total_steps \div args.evaluate_freq
        before == IF pc = "evaluate" THEN due - 1 ELSE due
    IN  /\ pc = "evaluate" => total_steps % args.evaluate_freq = 0 /\ total_steps > 0
        /\ log.evals = before
        /\ log.checkpoints = log.evals
        /\ log.checkpoint_steps = before * args.evaluate_freq
        /\ log.checkpoint_agent = log.checkpoint_steps \div args.batch_size
        /\ log.eval_agent = log.checkpoint_agent
        /\ pc # "evaluate" => prev_total_steps = log.checkpoint_steps

\* An update and an evaluation on the same step
C9_Witness ==
    /\ log.checkpoints >= 1
    /\ log.updates >= 1
    /\ log.update_steps = log.checkpoint_steps
    /\ log.checkpoint_agent = log.updates

\* C10: with reward scaling alone, reward_scaling.reset() has been called
\* once per episode begun, and the rewards folded into it since the last
\* reset are exactly those of the current episode.
C10_ScalingResetPerEpisode ==
    (args.use_reward_scaling /\ ~args.use_reward_norm) =>
        /\ reward_scaling.resets = env.episodes
        /\ reward_scaling.len = episode_steps

\* A second episode two steps long, with an update and an evaluation behind it
C10_Witness ==
    /\ args.use_reward_scaling
    /\ ~args.use_reward_norm
    /\ reward_scaling.resets = 2
    /\ reward_scaling.len = 2
    /\ log.updates >= 1
    /\ log.evals >= 1

====
